---- MODULE Spec2Model ----
(***************************************************************************)
(* Call-control and voice-activity engine of the voicebot.                 *)
(*                                                                         *)
(*   SpecAGI  SimpleAGI (agi_interface.py): one sequential session that    *)
(*            talks to the switch, one command and one reply at a time.    *)
(*   SpecRec  ProductionCallRecorder.get_user_input_with_mixmonitor        *)
(*            (production_recorder.py): the utterance-capture poll loop.   *)
(*   SpecRVI  RobustVoiceInterrupt (voice_interrupt.py): the main thread,  *)
(*            the background monitor thread and the playback thread on     *)
(*            the one call-control channel.                                *)
(*   SpecMain main() (voicebot_main.py): the call from the construction of *)
(*            the session to the return, with its top-level handler.       *)
(*   SpecLoop conversation_loop (voicebot_main.py) and the socket clients  *)
(*            of the ASR, the TTS and the response generator.              *)
(*                                                                         *)
(* A reply line is a sequence of its blank-separated words; the empty      *)
(* sequence is the empty string readline() gives at end of input.          *)
(* Time is counted in milliseconds (SpecRec) or in poll ticks of 100 ms    *)
(* (SpecRVI).                                                              *)
(***************************************************************************)
EXTENDS Integers, Sequences, FiniteSets, TLC

VARIABLES
    connected,      \* SimpleAGI.connected
    call_answered,  \* SimpleAGI.call_answered
    line,           \* the switch's side of the call: "ring", "up" or "dead"
    agiPc,          \* SpecAGI: "idle", or "pvi" inside play_with_voice_interrupt
    pviElapsed,     \* SpecAGI: time.time() - start_time of the pvi loop, in ms
    ret,            \* SpecAGI: what the last operation returned
    lastOp,         \* SpecAGI: the last operation that ran
    lastOpLate,     \* SpecAGI: connected was already false when it was called
    lastAnswer,     \* SpecAGI: the answer() call that ran last, if lastOp is answer
    prevAnswer,     \* SpecAGI: the answer() call right before that one, if any
    rec,            \* SpecRec: the locals of get_user_input_with_mixmonitor
    recCfg,         \* SpecRec: the recorder's thresholds (set in __init__)
    recFile,        \* SpecRec: size of the recording on disk, Absent before it exists
    obs,            \* SpecRec: what an observer of the polls has seen so far
    rvi,            \* SpecRVI: the fields of the RobustVoiceInterrupt object
    mainT,          \* SpecRVI: the main thread: where it is, its timer, its locals
    monT,           \* SpecRVI: the _background_monitor threads
    playT,          \* SpecRVI: the _threaded_playback threads
    chan,           \* SpecRVI: commands the switch has not answered, replies not read
    monFile,        \* SpecRVI: size of the monitor recording, Absent if none
    watch,          \* SpecRVI: what an observer of the channel and the clock has seen
    flow,           \* SpecFlow: the locals of conversation_flow_with_post_reply_window
    mainFn,         \* SpecMain: where main() is, and what it has done so far
    convo           \* SpecLoop: the locals of conversation_loop

agiVars == <<connected, call_answered, line, agiPc, pviElapsed, ret, lastOp,
             lastOpLate, lastAnswer, prevAnswer>>

recVars == <<rec, recCfg, recFile, obs>>

rviVars == <<rvi, mainT, monT, playT, chan, monFile, watch>>

callVars == <<mainFn, convo>>

\* what the SimpleAGI operations of SpecAGI leave alone
notAGI == <<rec, recCfg, recFile, obs, rviVars, flow, callVars>>

\* what the recorder leaves alone
notRec == <<call_answered, agiPc, pviElapsed, ret, lastOp, lastOpLate,
            lastAnswer, prevAnswer, rviVars, flow, callVars>>

\* what RobustVoiceInterrupt and its threads leave alone
notRVI == <<call_answered, agiPc, pviElapsed, ret, lastOp, lastOpLate,
            lastAnswer, prevAnswer, rec, recCfg, recFile, obs, flow, callVars>>

\* what a turn of the conversation flow leaves alone, the recorder aside
notFlow == <<call_answered, agiPc, pviElapsed, ret, lastOp, lastOpLate,
             lastAnswer, prevAnswer, rviVars, callVars>>

vars == <<connected, call_answered, line, agiPc, pviElapsed, ret, lastOp,
          lastOpLate, lastAnswer, prevAnswer, rec, recCfg, recFile, obs,
          rvi, mainT, monT, playT, chan, monFile, watch, flow, mainFn, convo>>

-----------------------------------------------------------------------------
(* Reply lines of the switch.                                              *)

R_OK == <<"200", "result=0">>
R_FAIL == <<"200", "result=-1">>
R_UP == <<"200", "result=6">>
R_RING == <<"200", "result=4">>
R_DIGIT == <<"200", "result=42">>
R_ONE == <<"200", "result=1">>
\* EXEC of an application the switch does not have
R_NOAPP == <<"200", "result=-2">>
R_RECHUP == <<"200", "result=-1", "(hangup)", "endpos=0">>
R_TIMEOUT == <<"200", "result=0", "(timeout)", "endpos=4000">>
R_HANGUP == <<"HANGUP">>
R_INVALID == <<"510", "Invalid", "or", "unknown", "command">>
R_DEAD == <<"511", "Command", "Not", "Permitted", "on", "a", "dead", "channel">>
R_EOF == <<>>
\* not a line: print() or readline() raised
IO_RAISED == <<"#raised">>
R_ERROR == <<"ERROR">>

\* str.lower() on the words that occur in replies
Lower(w) ==
    CASE w = "HANGUP" -> "hangup"
      [] w = "Invalid" -> "invalid"
      [] w = "Command" -> "command"
      [] w = "Not" -> "not"
      [] w = "Permitted" -> "permitted"
      [] w = "ERROR" -> "error"
      [] OTHER -> w

\* 'hangup' in word
HasHangup(w) == w \in {"hangup", "(hangup)"}

\* result.startswith(prefix), prefix given as whole words
StartsWith(r, p) == Len(r) >= Len(p) /\ SubSeq(r, 1, Len(p)) = p

\* word in result
Contains(r, w) == \E i \in 1..Len(r) : r[i] = w

\* Python truthiness of a string
Truthy(r) == r /= <<>>

\* result and result.startswith('200')
Success(r) == Truthy(r) /\ StartsWith(r, <<"200">>)

-----------------------------------------------------------------------------
(* The switch. It answers CHANNEL STATUS with the state of the line, and   *)
(* once the caller has hung up every command fails.                        *)

DeadReplies == {R_FAIL, R_HANGUP, R_EOF, R_DEAD, IO_RAISED}

SwitchReplies(verb, ln) ==
    IF ln = "dead" THEN DeadReplies
    ELSE DeadReplies \cup
         (CASE verb = "CHANNEL STATUS" -> {IF ln = "up" THEN R_UP ELSE R_RING}
            [] verb = "ANSWER" -> {R_OK}
            [] verb = "HANGUP" -> {R_ONE}
            [] verb = "STREAM FILE" -> {R_OK, R_DIGIT}
            [] verb = "GET OPTION" -> {R_OK, R_DIGIT}
            [] verb = "RECORD FILE" -> {R_TIMEOUT, R_RECHUP}
            [] verb = "VERBOSE" -> {R_ONE}
            [] verb = "EXEC" -> {R_OK, R_NOAPP}
            [] verb = "EXEC BackgroundDetect" -> {R_OK, R_ONE}
            [] OTHER -> {R_OK, R_INVALID})

LineAfter(ln, verb, r) ==
    IF r \in DeadReplies \/ r = R_RECHUP THEN "dead"
    ELSE IF verb = "ANSWER" THEN "up"
    ELSE IF verb = "HANGUP" THEN "dead"
    ELSE ln

-----------------------------------------------------------------------------
(* SimpleAGI.command                                                       *)

\* the string command() returns
CommandResult(r) == IF r = IO_RAISED THEN R_ERROR ELSE r

\* the hangup test of command()
HangupDetected(result) ==
    \/ StartsWith(result, <<"200", "result=-1">>)
    \/ \E i \in 1..Len(result) : HasHangup(Lower(result[i]))

MutHangupAssign(conn, r) ==
    IF r = IO_RAISED THEN FALSE
    ELSE ~HangupDetected(r)

\* self.connected after command() read r
CommandConnected(conn, r) ==
    IF r = IO_RAISED THEN FALSE
    ELSE IF HangupDetected(r) THEN FALSE
    ELSE conn

\* one command()/reply exchange from session state s = [connected, line]
Exch(s, verb, r) ==
    [connected |-> CommandConnected(s.connected, r),
     line |-> LineAfter(s.line, verb, r),
     result |-> CommandResult(r)]

Here == [connected |-> connected, line |-> line]

-----------------------------------------------------------------------------
(* SimpleAGI: the operations of one session (SpecAGI).                     *)

None == <<"#None">>
DTMF_DETECTED == <<"#DTMF_DETECTED">>
VOICE_DETECTED == <<"#VOICE_DETECTED">>

\* transcripts the ASR may give, as sequences of characters
Transcripts == {<<>>, <<" ", " ", " ">>, <<"o", "k">>, <<"h", "e", "l", "p">>}

RECURSIVE LStrip(_)
LStrip(t) == IF t /= <<>> /\ Head(t) = " " THEN LStrip(Tail(t)) ELSE t

RECURSIVE RStrip(_)
RStrip(t) ==
    IF t /= <<>> /\ t[Len(t)] = " " THEN RStrip(SubSeq(t, 1, Len(t) - 1)) ELSE t

\* str.strip()
Strip(t) == RStrip(LStrip(t))

\* the result value a reply carries is negative
NegativeResult(r) == \E i \in 1..Len(r) : r[i] \in {"result=-1", "result=-2"}

\* the reply contains a hangup token
HangupToken(r) == \E i \in 1..Len(r) : HasHangup(Lower(r[i]))

\* the bookkeeping of one answer() call: what it returned, whether it sent
\* ANSWER, whether the line was up after it, whether the reply to ANSWER
\* reported a failure or a hangup, and the answered flag it started with
NoAnswer ==
    [called |-> FALSE, ret |-> FALSE, sent |-> FALSE, up |-> FALSE,
     refused |-> FALSE, was |-> FALSE]

Ret(ok, out) == [ok |-> ok, out |-> out]

\* what an operation that is not answer() leaves of the bookkeeping
Ran(op) ==
    /\ lastOp' = op
    /\ lastOpLate' = ~connected
    /\ lastAnswer' = NoAnswer
    /\ prevAnswer' = NoAnswer

\* command(cmd) called directly, verbose() included
RawCommand ==
    /\ agiPc = "idle"
    /\ \E verb \in {"VERBOSE", "NOOP", "EXEC"} :
       \E r \in SwitchReplies(verb, line) :
         LET s == Exch(Here, verb, r) IN
         /\ connected' = s.connected
         /\ line' = s.line
         /\ ret' = Ret(Truthy(s.result), s.result)
    /\ Ran("command")
    /\ UNCHANGED <<call_answered, agiPc, pviElapsed>>
    /\ UNCHANGED notAGI

\* answer() without the status query: ANSWER is always sent
MutAnswerNoStatus(s0, answered0, r1, r2) ==
    LET s2 == Exch(Exch(s0, "CHANNEL STATUS", r1), "ANSWER", r2)
    IN  [connected |-> s2.connected, line |-> s2.line,
         answered |-> IF Success(s2.result) THEN TRUE ELSE answered0,
         ret |-> Success(s2.result), sent |-> TRUE, reply |-> s2.result]

\* answer() given the reply to CHANNEL STATUS and the reply ANSWER would get:
\* [connected, line, answered, ret, sent, reply]
AnswerOutcome(s0, answered0, r1, r2) ==
    LET s1 == Exch(s0, "CHANNEL STATUS", r1)
        s2 == Exch(s1, "ANSWER", r2)
    IN  IF Contains(s1.result, "result=6")
        THEN [connected |-> s1.connected, line |-> s1.line, answered |-> TRUE,
              ret |-> TRUE, sent |-> FALSE, reply |-> None]
        ELSE [connected |-> s2.connected, line |-> s2.line,
              answered |-> IF Success(s2.result) THEN TRUE ELSE answered0,
              ret |-> Success(s2.result), sent |-> TRUE, reply |-> s2.result]

Answer ==
    /\ agiPc = "idle"
    /\ \E r1 \in SwitchReplies("CHANNEL STATUS", line) :
       \E r2 \in SwitchReplies("ANSWER", LineAfter(line, "CHANNEL STATUS", r1)) :
         LET o == AnswerOutcome(Here, call_answered, r1, r2) IN
         /\ connected' = o.connected
         /\ line' = o.line
         /\ call_answered' = o.answered
         /\ ret' = Ret(o.ret, None)
         /\ lastAnswer' = [called |-> TRUE, ret |-> o.ret, sent |-> o.sent,
                           up |-> o.line = "up",
                           refused |-> o.sent /\ (NegativeResult(o.reply)
                                                   \/ HangupToken(o.reply)),
                           was |-> call_answered]
    /\ prevAnswer' = lastAnswer
    /\ lastOp' = "answer"
    /\ lastOpLate' = ~connected
    /\ UNCHANGED <<agiPc, pviElapsed>>
    /\ UNCHANGED notAGI

Hangup ==
    /\ agiPc = "idle"
    /\ \E r \in SwitchReplies("HANGUP", line) :
         line' = Exch(Here, "HANGUP", r).line
    /\ connected' = FALSE
    /\ ret' = Ret(TRUE, None)
    /\ Ran("hangup")
    /\ UNCHANGED <<call_answered, agiPc, pviElapsed>>
    /\ UNCHANGED notAGI

StreamFile ==
    /\ agiPc = "idle"
    /\ \E r \in SwitchReplies("STREAM FILE", line) :
         LET s == Exch(Here, "STREAM FILE", r) IN
         /\ connected' = s.connected
         /\ line' = s.line
         /\ ret' = Ret(Success(s.result), None)
    /\ Ran("stream_file")
    /\ UNCHANGED <<call_answered, agiPc, pviElapsed>>
    /\ UNCHANGED notAGI

RecordFile ==
    /\ agiPc = "idle"
    /\ \E r \in SwitchReplies("RECORD FILE", line) :
         LET s == Exch(Here, "RECORD FILE", r) IN
         /\ line' = s.line
         /\ IF Truthy(s.result) /\ Contains(s.result, "result=-1")
            THEN connected' = FALSE /\ ret' = Ret(FALSE, None)
            ELSE connected' = s.connected /\ ret' = Ret(Success(s.result), None)
    /\ Ran("record_file")
    /\ UNCHANGED <<call_answered, agiPc, pviElapsed>>
    /\ UNCHANGED notAGI

\* the caller hangs up
CallerHangup ==
    /\ line /= "dead"
    /\ line' = "dead"
    /\ UNCHANGED <<connected, call_answered, agiPc, pviElapsed, ret, lastOp,
                   lastOpLate, lastAnswer, prevAnswer>>
    /\ UNCHANGED notAGI

-----------------------------------------------------------------------------
(* SimpleAGI.play_with_voice_interrupt: Background playback, then a loop   *)
(* of GET OPTION and a 500 ms RECORD FILE probe until 30 s have passed.    *)

MaxPlaybackMs == 30000
CheckIntervalMs == 200
GetOptionMs == 100
ProbeRecordMs == 500
VoiceProbeBytes == 150
CleanMinBytes == 200
MinTranscriptLen == 2

\* os.path.getsize of a recording, Absent when the file does not exist
Absent == 0 - 1
ProbeSizes == {Absent, 44, 151}
CleanSizes == {Absent, 200, 4000}

PviStart ==
    /\ agiPc = "idle"
    /\ \E r \in SwitchReplies("EXEC Background", line) :
         LET s == Exch(Here, "EXEC Background", r) IN
         /\ connected' = s.connected
         /\ line' = s.line
    /\ agiPc' = "pvi"
    /\ pviElapsed' = 0
    /\ Ran("play_with_voice_interrupt")
    /\ UNCHANGED <<call_answered, ret>>
    /\ UNCHANGED notAGI

PviReturn(ok, out) ==
    /\ agiPc' = "idle"
    /\ pviElapsed' = 0
    /\ ret' = Ret(ok, out)

\* the loop's test and GET OPTION: is the playback still running, was a key
\* pressed, did the call end
PviGetOption ==
    /\ agiPc = "pvi"
    /\ pviElapsed < MaxPlaybackMs
    /\ \E r \in SwitchReplies("GET OPTION", line) :
         LET s == Exch(Here, "GET OPTION", r)
             status == s.result
         IN
         /\ line' = s.line
         /\ IF Truthy(status) /\ ~StartsWith(status, <<"200", "result=0">>)
            THEN IF (\E i \in 1..Len(status) : HasHangup(Lower(status[i])))
                    \/ Contains(status, "result=-1")
                 THEN /\ connected' = FALSE
                      /\ PviReturn(FALSE, None)
                 ELSE /\ connected' = s.connected
                      /\ agiPc' = "pviDtmf"
                      /\ UNCHANGED <<pviElapsed, ret>>
            ELSE /\ connected' = s.connected
                 /\ agiPc' = "pviProbe"
                 \* the switch waits out the 100 ms only while the call is alive
                 /\ pviElapsed' = pviElapsed + (IF r = R_OK THEN GetOptionMs ELSE 0)
                 /\ UNCHANGED ret
    /\ UNCHANGED <<call_answered, lastOp, lastOpLate, lastAnswer, prevAnswer>>
    /\ UNCHANGED notAGI

\* a key was pressed: stop the playback
PviDtmf ==
    /\ agiPc = "pviDtmf"
    /\ \E r \in SwitchReplies("EXEC StopPlayback", line) :
         LET s == Exch(Here, "EXEC StopPlayback", r) IN
         /\ connected' = s.connected
         /\ line' = s.line
    /\ PviReturn(FALSE, DTMF_DETECTED)
    /\ UNCHANGED <<call_answered, lastOp, lastOpLate, lastAnswer, prevAnswer>>
    /\ UNCHANGED notAGI

\* the 500 ms probe recording and the size of its file
PviProbe ==
    /\ agiPc = "pviProbe"
    /\ \E r \in SwitchReplies("RECORD FILE", line) :
         LET s == Exch(Here, "RECORD FILE", r) IN
         /\ connected' = s.connected
         /\ line' = s.line
         /\ \E size \in ProbeSizes :
              IF size /= Absent /\ size > VoiceProbeBytes
              THEN /\ agiPc' = "pviStop"
                   /\ UNCHANGED pviElapsed
              ELSE /\ agiPc' = "pvi"
                   /\ pviElapsed' = pviElapsed + CheckIntervalMs
                                    + (IF r = R_TIMEOUT THEN ProbeRecordMs ELSE 0)
    /\ UNCHANGED <<call_answered, ret, lastOp, lastOpLate, lastAnswer, prevAnswer>>
    /\ UNCHANGED notAGI

\* the caller spoke: stop the playback
PviStop ==
    /\ agiPc = "pviStop"
    /\ \E r \in SwitchReplies("EXEC StopPlayback", line) :
         LET s == Exch(Here, "EXEC StopPlayback", r) IN
         /\ connected' = s.connected
         /\ line' = s.line
    /\ agiPc' = "pviClean"
    /\ UNCHANGED <<call_answered, pviElapsed, ret, lastOp, lastOpLate, lastAnswer, prevAnswer>>
    /\ UNCHANGED notAGI

\* the clean recording after the playback stopped, and its transcript
PviClean ==
    /\ agiPc = "pviClean"
    /\ \E r \in SwitchReplies("RECORD FILE", line) :
         LET s == Exch(Here, "RECORD FILE", r) IN
         /\ connected' = s.connected
         /\ line' = s.line
    /\ \E size \in CleanSizes, heard \in Transcripts :
         LET transcript == IF size /= Absent /\ size > CleanMinBytes
                           THEN heard ELSE <<>>
         IN  IF Truthy(transcript) /\ Len(Strip(transcript)) > MinTranscriptLen
             THEN PviReturn(FALSE, transcript)
             ELSE PviReturn(FALSE, VOICE_DETECTED)
    /\ UNCHANGED <<call_answered, lastOp, lastOpLate, lastAnswer, prevAnswer>>
    /\ UNCHANGED notAGI

\* the loop ran out: playback completed without interruption
PviDone ==
    /\ agiPc = "pvi"
    /\ pviElapsed >= MaxPlaybackMs
    /\ PviReturn(TRUE, None)
    /\ UNCHANGED <<connected, call_answered, line, lastOp, lastOpLate, lastAnswer, prevAnswer>>
    /\ UNCHANGED notAGI

-----------------------------------------------------------------------------

InitAGI ==
    /\ connected = TRUE
    /\ call_answered = FALSE
    /\ line \in {"ring", "up"}
    /\ agiPc = "idle"
    /\ pviElapsed = 0
    /\ ret = Ret(TRUE, None)
    /\ lastOp = "init"
    /\ lastOpLate = FALSE
    /\ lastAnswer = NoAnswer
    /\ prevAnswer = NoAnswer

-----------------------------------------------------------------------------
(* ProductionCallRecorder.get_user_input_with_mixmonitor (SpecRec).        *)
(* The loop polls the size of the recording every 100 ms; time is in ms    *)
(* since start_time, and a pass of the loop takes the 100 ms of its sleep. *)

PollMs == 100
SpeechStartBytes == 300
\* self.min_speech_bytes = 600 (the loop never reads it)
MinSpeechBytes == 600
GrowthBytes == 50
GuardWindowMs == 800
TrailingSilenceChecks == 6
MaxSpeechBytes == 50000
SettleFirstBytes == 1000
SettleSecondBytes == 600
MinViableBytes == 800

\* bounds of the model: the timeouts tried, and a second, shorter setting
\* of the guard window and of the silence count
TimeoutStepMs == 450
MaxTimeoutSteps == 4
AltGuardMs == 300
AltSilenceChecks == 2

Timeouts == {k * TimeoutStepMs : k \in 0..MaxTimeoutSteps}

RecConfigs ==
    [guard_window_ms : {GuardWindowMs, AltGuardMs},
     trailing_silence_checks : {TrailingSilenceChecks, AltSilenceChecks},
     max_speech_bytes : {MaxSpeechBytes}]

\* sizes the recording is seen with while it is being written
PollLevels == {200, 301, 340, 380, 50001}
\* sizes it may have once the recorder was stopped and the file flushed
FlushLevels == PollLevels \cup {599, 600, 799, 800}

\* no turn of the conversation flow has run
FlowIdle ==
    [pc |-> "idle", interrupted |-> FALSE, user_input |-> None,
     additional_input |-> None, captures |-> 0, ret |-> None]

\* main() has not been entered
MainFnIdle ==
    [pc |-> "idle", env_count |-> 0, caught |-> FALSE, hangups |-> 0,
     cleanup_failed |-> FALSE]

\* conversation_loop has not been entered
ConvoIdle ==
    [pc |-> "idle", turn |-> 0, transcript |-> None, response |-> None,
     no_response_count |-> 0, failed_interactions |-> 0, should_exit |-> FALSE,
     tts_file |-> None, interrupt_transcript |-> None, failed |-> {},
     unanswered |-> {}, fallback |-> "none", pending |-> FALSE,
     dispatch |-> FALSE, current_customer |-> FALSE, intake |-> "none"]

CallIdle == mainFn = MainFnIdle /\ convo = ConvoIdle

RecIdle ==
    [pc |-> "idle", timeout |-> 0, now |-> 0, speech_started |-> FALSE,
     speech_start_time |-> 0, last_size |-> 0, consecutive_no_growth |-> 0,
     exit |-> "none", ret |-> None, asr |-> FALSE, file_size |-> Absent]

ObsNone ==
    [polls |-> 0, prev |-> Absent, grew |-> FALSE,
     onset |-> Absent, stall |-> 0, ref |-> 0, run |-> 0]

\* while time.time() - start_time < timeout
MutLoopNoDeadline(now, timeout, started) == started \/ now < timeout

LoopCondition(now, timeout, started) == now < timeout

\* if guard_elapsed < self.guard_window_ms
MutGuardOff(l, cfg) == FALSE

InGuard(l, cfg) == (l.now - l.speech_start_time) < cfg.guard_window_ms

\* if current_size <= last_size
MutNoGrowthAny(current_size, last_size) == current_size <= last_size

\* if current_size <= last_size + 50
NoGrowth(current_size, last_size) == current_size <= last_size + GrowthBytes

\* if consecutive_no_growth >= self.trailing_silence_checks
MutSilenceOneLate(count, cfg) == count > cfg.trailing_silence_checks

SilenceReached(count, cfg) == count >= cfg.trailing_silence_checks

\* the body of one pass once the file exists: the locals after it, and in
\* brk the break it took ("none" when the pass goes on to sleep)
PollBody(l, cfg, current_size) ==
    IF ~l.speech_started /\ current_size > SpeechStartBytes
    THEN [l EXCEPT !.speech_started = TRUE, !.speech_start_time = l.now,
                   !.last_size = current_size, !.consecutive_no_growth = 0]
    ELSE IF l.speech_started
    THEN IF InGuard(l, cfg)
         THEN [l EXCEPT !.last_size = current_size, !.consecutive_no_growth = 0]
         ELSE IF NoGrowth(current_size, l.last_size)
              THEN IF SilenceReached(l.consecutive_no_growth + 1, cfg)
                   THEN [l EXCEPT !.consecutive_no_growth = @ + 1,
                                  !.exit = "silence"]
                   ELSE IF current_size > cfg.max_speech_bytes
                   THEN [l EXCEPT !.consecutive_no_growth = @ + 1, !.exit = "cap"]
                   ELSE [l EXCEPT !.consecutive_no_growth = @ + 1]
              ELSE IF current_size > cfg.max_speech_bytes
                   THEN [l EXCEPT !.consecutive_no_growth = 0,
                                  !.last_size = current_size, !.exit = "cap"]
                   ELSE [l EXCEPT !.consecutive_no_growth = 0,
                                  !.last_size = current_size]
    ELSE l

\* what an observer of the polled sizes keeps: the number of polls, whether
\* any size differed from the one before, the poll of the speech onset, the run
\* of polls since the onset that did not grow over the poll before (stall),
\* and the run of polls after the guard window that did not grow over the
\* last size that counted as growth (run)
Observe(o, cfg, now, size) ==
    LET seen == [o EXCEPT !.polls = @ + 1, !.prev = size,
                          !.grew = @ \/ (o.polls > 0 /\ size /= o.prev)]
    IN  IF size = Absent THEN seen
        ELSE IF o.onset = Absent
        THEN IF size > SpeechStartBytes
             THEN [seen EXCEPT !.onset = now, !.stall = 0, !.ref = size, !.run = 0]
             ELSE seen
        ELSE [seen EXCEPT
                !.stall = IF size <= o.prev + GrowthBytes THEN @ + 1 ELSE 0,
                !.run = IF now - o.onset >= cfg.guard_window_ms
                           /\ size <= o.ref + GrowthBytes
                        THEN @ + 1 ELSE 0,
                !.ref = IF now - o.onset >= cfg.guard_window_ms
                           /\ size <= o.ref + GrowthBytes
                        THEN @ ELSE size]

\* EXEC MixMonitor, and the locals of the loop
RecStart ==
    /\ rec.pc = "idle"
    /\ \E timeout \in Timeouts, r \in SwitchReplies("EXEC MixMonitor", line) :
         LET s == Exch(Here, "EXEC MixMonitor", r) IN
         /\ connected' = s.connected
         /\ line' = s.line
         /\ IF ~Success(s.result)
            THEN rec' = [RecIdle EXCEPT !.exit = "nostart"]
            ELSE rec' = [RecIdle EXCEPT !.pc = "loop", !.timeout = timeout]
    /\ recFile' = Absent
    /\ obs' = ObsNone
    /\ UNCHANGED <<recCfg, notRec>>

\* one pass of the while loop: its test, the connected check, the probe of
\* the file, and the sleep
RecPoll ==
    /\ rec.pc = "loop"
    /\ IF ~LoopCondition(rec.now, rec.timeout, rec.speech_started)
       THEN /\ rec' = [rec EXCEPT !.pc = "stop", !.exit = "timeout"]
            /\ UNCHANGED <<recFile, obs>>
       ELSE IF ~connected
       THEN /\ rec' = [rec EXCEPT !.pc = "stop", !.exit = "aborted"]
            /\ UNCHANGED <<recFile, obs>>
       ELSE \E size \in {Absent} \cup PollLevels :
              /\ size >= recFile
              /\ recFile' = size
              /\ obs' = Observe(obs, recCfg, rec.now, size)
              /\ LET l == IF size = Absent THEN rec ELSE PollBody(rec, recCfg, size)
                 IN  IF l.exit /= "none"
                     THEN rec' = [l EXCEPT !.pc = "stop"]
                     ELSE rec' = [l EXCEPT !.now = @ + PollMs]
    /\ UNCHANGED <<connected, line, recCfg, notRec>>

\* a thread of the barge-in code that shares the agi object reads the reply
\* to its own command while the loop runs
RecOtherCommand ==
    /\ rec.pc = "loop"
    /\ \E r \in SwitchReplies("STREAM FILE", line) :
         LET s == Exch(Here, "STREAM FILE", r) IN
         /\ connected' = s.connected
         /\ line' = s.line
    /\ UNCHANGED <<recVars, notRec>>

\* the call returns: its locals are gone
Returned(l, asr, out) ==
    [RecIdle EXCEPT !.exit = l.exit, !.asr = asr, !.ret = out,
                    !.file_size = l.file_size]

\* after the loop: EXEC StopMixMonitor; what the loop left is kept in exit
RecStop ==
    /\ rec.pc = "stop"
    /\ \E r \in SwitchReplies("EXEC StopMixMonitor", line) :
         LET s == Exch(Here, "EXEC StopMixMonitor", r) IN
         /\ connected' = s.connected
         /\ line' = s.line
    /\ rec' = [RecIdle EXCEPT !.pc = "settle", !.exit = rec.exit]
    /\ obs' = ObsNone
    /\ UNCHANGED <<recFile, recCfg, notRec>>

\* the size the settle reads end with, from the first read f1: a second read
\* if f1 < 1000, a third if that one is < 600; the file only grows
SettledSizes(f1) ==
    IF f1 >= SettleFirstBytes THEN {f1}
    ELSE UNION {IF f2 >= SettleSecondBytes THEN {f2}
                ELSE {f3 \in FlushLevels : f3 >= f2} :
                f2 \in {f \in FlushLevels : f >= f1}}

\* what transcribe_file does: a transcript, or it raises
AsrRaises == <<"#raises">>
AsrOutcomes == Transcripts \cup {AsrRaises}

\* if file_size >= 600
MutViableOld(file_size) == file_size >= SettleSecondBytes

\* if file_size >= min_viable
Viable(file_size) == file_size >= MinViableBytes

\* the settle delay, the size checks, the ASR and the cleanup of the file
RecSettle ==
    /\ rec.pc = "settle"
    /\ \E f1 \in {Absent} \cup FlushLevels :
         /\ f1 >= recFile
         /\ IF f1 = Absent
            THEN rec' = Returned(rec, FALSE, None)
            ELSE \E file_size \in SettledSizes(f1) :
                   LET l == [rec EXCEPT !.file_size = file_size] IN
                   IF Viable(file_size)
                   THEN \E heard \in AsrOutcomes :
                          IF heard = AsrRaises
                          THEN rec' = [l EXCEPT !.pc = "except", !.asr = TRUE]
                          ELSE rec' = Returned(l, TRUE,
                                               IF Truthy(heard) /\ Len(Strip(heard)) > 0
                                               THEN Strip(heard) ELSE None)
                   ELSE rec' = Returned(l, FALSE, None)
    /\ recFile' = Absent
    /\ UNCHANGED <<connected, line, obs, recCfg, notRec>>

\* the except clause: EXEC StopMixMonitor once more, return None
RecExcept ==
    /\ rec.pc = "except"
    /\ \E r \in SwitchReplies("EXEC StopMixMonitor", line) :
         LET s == Exch(Here, "EXEC StopMixMonitor", r) IN
         /\ connected' = s.connected
         /\ line' = s.line
    /\ rec' = Returned(rec, TRUE, None)
    /\ UNCHANGED <<recFile, obs, recCfg, notRec>>

-----------------------------------------------------------------------------
(* RobustVoiceInterrupt (SpecRVI).  The orchestrator (main thread) calls   *)
(* start_monitoring, stop_monitoring and play_with_interrupt_detection;    *)
(* the monitor thread polls the recording every 100 ms; a playback thread  *)
(* sends STREAM FILE.  All of them use the one SimpleAGI object, whose     *)
(* command() writes a line and then blocks in readline().  Time advances   *)
(* in ticks of one poll interval, and only when no thread can take a step. *)

\* time.sleep(0.1) of the monitor loop; queue.get(timeout=0.1) of the play loop
MonitorPollMs == 100
\* current_size > self.last_file_size + 1024
GrowthThreshold == 1024
\* self.monitor_thread.join(timeout=2)
JoinMonitorMs == 2000
\* time.sleep(1.5) after SendDTMF
DtmfSleepMs == 1500
\* time.sleep(0.5) in _get_interruption_transcript
TranscriptSleepMs == 500
\* playback_thread.join(timeout=1)
JoinPlaybackMs == 1000

Ticks(ms) == ms \div MonitorPollMs
PollTicks == Ticks(MonitorPollMs)

\* monitor threads and playback threads that can exist at once
MaxMonitors == 2
MaxPlaybacks == 1
\* max_play_time values the orchestrator passes, in ms
PlayTimeMs == 300

MonSlots == 1..MaxMonitors
PlaySlots == 1..MaxPlaybacks
MaxPlayTimes == {PlayTimeMs}
\* the passes of a monitor loop that are counted
MonitorDeadlinePolls == 5

\* sizes of the monitor recording
MonitorSizes == {1024, 1025, 2050}

\* the replies the switch gives in SpecRVI, one of each kind command() and
\* its callers tell apart
SwitchAnswers(verb, ln) ==
    SwitchReplies(verb, ln) \cap {R_OK, R_FAIL, R_HANGUP, R_EOF}

\* transcripts of an interruption
InterruptTranscripts == {AsrRaises, <<>>, <<" ", " ", " ">>, <<"o", "k">>}

\* the thread that called command(): the main thread, or a playback thread
MainThread == 0

RviInit == [monitoring |-> FALSE, monitor_thread |-> 0, queue |-> 0,
            recording |-> FALSE, last_file_size |-> 0,
            speech_detected |-> FALSE]

MainIdle == [pc |-> "idle", timer |-> 0, op |-> "none", max |-> 0, pt |-> 0,
             transcript |-> None, last |-> "none", ret |-> None, blind |-> 0]

\* polls is the number of passes the loop of the thread has made, counted
\* up to MonitorDeadlinePolls; put is the current_size of an event the thread
\* is about to enqueue, Absent when it is not at that statement
MonDead == [alive |-> FALSE, timer |-> 0, stopreq |-> FALSE, blind |-> 0,
            polls |-> 0, put |-> Absent]

MonBorn == [MonDead EXCEPT !.alive = TRUE]

\* the values True and False as start_monitoring returns them
PyTrue == <<"True">>
PyFalse == <<"False">>

Return(op, value) == [MainIdle EXCEPT !.last = op, !.ret = value]

FirstFree(S) == CHOOSE i \in S : \A j \in S : i <= j

FreeMonitors == {i \in MonSlots : ~monT[i].alive}
FreePlaybacks == {i \in PlaySlots : playT[i] = "dead"}

\* command(): print the line ...
Sent(c, verb) == [c EXCEPT !.pending = Append(@, verb)]

\* ... and readline(): the next line in the pipe, whoever it was meant for
Got == Head(chan.replies)
Taken(c) == [c EXCEPT !.replies = Tail(@)]

Read == connected' = CommandConnected(connected, Got)

\* the threads that have written a command and not yet read a reply
InCommand ==
    (IF mainT.pc \in {"smWait", "fbWait", "stWait", "dtmfWait"}
     THEN {MainThread} ELSE {})
        \cup {i \in PlaySlots : playT[i] = "wait"}

IsAlive(t) == t /= 0 /\ monT[t].alive

\* while self.monitoring and self.agi.connected
MonitorContinues(monitoring, conn) == monitoring /\ conn

\* if self.monitor_thread and self.monitor_thread.is_alive(): join(timeout=2)
MutNoJoin(t) == FALSE

JoinsMonitor(t) == IsAlive(t)

\* one pass of _background_monitor, up to the sleep or, when the file grew
\* and speech_detected was false, up to the flag being set: the put on the
\* queue is a step of its own
MonitorPass ==
    \E i \in MonSlots :
      /\ monT[i].alive /\ monT[i].timer = 0 /\ monT[i].put = Absent
      /\ IF MonitorContinues(rvi.monitoring, connected)
         THEN LET grew == /\ monFile /= Absent
                          /\ monFile > rvi.last_file_size + GrowthThreshold
                  first == grew /\ ~rvi.speech_detected
              IN /\ rvi' = [rvi EXCEPT
                        !.speech_detected = @ \/ grew,
                        !.last_file_size = IF grew /\ ~first THEN monFile ELSE @]
                 /\ monT' = [monT EXCEPT
                       ![i].timer = IF first THEN 0 ELSE PollTicks,
                       ![i].put = IF first THEN monFile ELSE Absent,
                       ![i].polls = IF @ < MonitorDeadlinePolls THEN @ + 1 ELSE @]
         ELSE /\ monT' = [monT EXCEPT ![i] = MonDead]
              /\ UNCHANGED rvi
      /\ UNCHANGED <<connected, line, mainT, playT, chan, monFile, watch, notRVI>>

\* the call of play_with_interrupt_detection has reset speech_detected and
\* has not returned
InPlayback == mainT.op = "play" /\ mainT.pc \notin {"smWait", "fbWait", "playStart", "playReset"}

\* self.interrupt_queue.put(...), self.last_file_size = current_size, sleep
MonitorPut ==
    \E i \in MonSlots :
      /\ monT[i].alive /\ monT[i].put /= Absent
      /\ rvi' = [rvi EXCEPT !.queue = @ + 1, !.last_file_size = monT[i].put]
      /\ monT' = [monT EXCEPT ![i].timer = PollTicks, ![i].put = Absent]
      /\ watch' = [watch EXCEPT
                      !.puts = IF InPlayback /\ @ <= 1 THEN @ + 1 ELSE @]
      /\ UNCHANGED <<connected, line, mainT, playT, chan, monFile, notRVI>>

\* start_monitoring() up to the MixMonitor command
StartCall(op, max) ==
    IF rvi.monitoring
    THEN /\ mainT' = IF op = "play"
                     THEN [mainT EXCEPT !.pc = "playStart", !.op = op, !.max = max]
                     ELSE Return("start", PyTrue)
         /\ UNCHANGED <<rvi, chan, monFile>>
    ELSE /\ rvi' = [rvi EXCEPT !.recording = TRUE]
         /\ monFile' = Absent
         /\ chan' = Sent(chan, "EXEC MixMonitor")
         /\ mainT' = [mainT EXCEPT !.pc = "smWait", !.op = op, !.max = max]

StartMonitoring ==
    /\ mainT.pc = "idle"
    /\ StartCall("start", 0)
    /\ UNCHANGED <<connected, line, monT, playT, watch, notRVI>>

\* start_monitoring() from the reply on: the flag, the thread
StartMonitoringReply ==
    /\ mainT.pc = "smWait" /\ chan.replies /= <<>>
    /\ connected' = CommandConnected(connected, Got)
    /\ IF Success(CommandResult(Got))
       THEN /\ FreeMonitors /= {}
            /\ rvi' = [rvi EXCEPT !.monitoring = TRUE, !.last_file_size = 0,
                                  !.monitor_thread = FirstFree(FreeMonitors)]
            /\ monT' = [monT EXCEPT ![FirstFree(FreeMonitors)] = MonBorn]
            /\ chan' = Taken(chan)
            /\ mainT' = IF mainT.op = "play"
                        THEN [mainT EXCEPT !.pc = "playStart"]
                        ELSE Return("start", PyTrue)
       ELSE /\ UNCHANGED <<rvi, monT>>
            /\ IF mainT.op = "play"
               THEN \* fallback: self.agi.stream_file(filename)
                    /\ chan' = Sent(Taken(chan), "STREAM FILE")
                    /\ mainT' = [mainT EXCEPT !.pc = "fbWait"]
               ELSE /\ chan' = Taken(chan)
                    /\ mainT' = Return("start", PyFalse)
    /\ UNCHANGED <<line, playT, monFile, watch, notRVI>>

\* the fallback stream_file() returns
FallbackReply ==
    /\ mainT.pc = "fbWait" /\ chan.replies /= <<>>
    /\ Read
    /\ chan' = Taken(chan)
    /\ mainT' = Return("play", <<Success(CommandResult(Got)), FALSE, None>>)
    /\ UNCHANGED <<line, rvi, monT, playT, monFile, watch, notRVI>>

\* stop_monitoring() up to the StopMixMonitor command
StopMonitoring ==
    /\ mainT.pc = "idle"
    /\ IF ~rvi.monitoring
       THEN /\ mainT' = Return("stop_noop", None)
            /\ UNCHANGED <<rvi, chan, monT, watch>>
       ELSE /\ rvi' = [rvi EXCEPT !.monitoring = FALSE]
            /\ watch' = [watch EXCEPT !.sinceStop = 0]
            /\ chan' = Sent(chan, "EXEC StopMixMonitor")
            /\ mainT' = [mainT EXCEPT !.pc = "stWait", !.op = "stop"]
            /\ monT' = [i \in MonSlots |->
                          [monT[i] EXCEPT !.stopreq = monT[i].alive]]
    /\ UNCHANGED <<connected, line, playT, monFile, notRVI>>

\* stop_monitoring(): the reply is in, join the monitor thread if it is alive
StopMonitoringReply ==
    /\ mainT.pc = "stWait" /\ chan.replies /= <<>>
    /\ Read
    /\ chan' = Taken(chan)
    /\ IF JoinsMonitor(rvi.monitor_thread)
       THEN /\ mainT' = [mainT EXCEPT !.pc = "stJoin",
                                      !.timer = Ticks(JoinMonitorMs)]
            /\ UNCHANGED monFile
       ELSE /\ mainT' = Return("stop", None)
            /\ monFile' = Absent
    /\ UNCHANGED <<line, rvi, monT, playT, watch, notRVI>>

\* join(timeout=2) is over; os.unlink(self.current_recording)
StopMonitoringJoined ==
    /\ mainT.pc = "stJoin"
    /\ mainT.timer = 0 \/ ~IsAlive(rvi.monitor_thread)
    /\ mainT' = Return("stop", None)
    /\ monFile' = Absent
    /\ UNCHANGED <<connected, line, rvi, monT, playT, chan, watch, notRVI>>

\* play_with_interrupt_detection(filename, max_play_time) is called
Play ==
    /\ mainT.pc = "idle"
    /\ FreePlaybacks /= {}
    /\ \E max \in MaxPlayTimes : StartCall("play", max)
    /\ UNCHANGED <<connected, line, monT, playT, watch, notRVI>>

\* while not self.interrupt_queue.empty(): get_nowait()
PlayDrain ==
    /\ mainT.pc = "playStart"
    /\ rvi' = [rvi EXCEPT !.queue = 0]
    /\ mainT' = [mainT EXCEPT !.pc = "playReset"]
    /\ watch' = [watch EXCEPT !.stale = 0, !.acted = FALSE, !.puts = 0]
    /\ UNCHANGED <<connected, line, monT, playT, chan, monFile, notRVI>>

\* speech_detected is reset, the playback thread started
PlayBegin ==
    /\ mainT.pc = "playReset"
    /\ rvi' = [rvi EXCEPT !.speech_detected = FALSE]
    /\ playT' = [playT EXCEPT ![FirstFree(FreePlaybacks)] = "send"]
    /\ mainT' = [mainT EXCEPT !.pc = "playLoop", !.timer = Ticks(mainT.max),
                              !.pt = FirstFree(FreePlaybacks)]
    /\ watch' = [watch EXCEPT !.stale = rvi.queue]
    /\ UNCHANGED <<connected, line, monT, chan, monFile, notRVI>>

\* interrupt_queue.get(timeout=0.1) gave an event: EXEC SendDTMF *
PlayInterrupt ==
    /\ mainT.pc = "playLoop" /\ mainT.timer > 0 /\ rvi.queue > 0
    /\ rvi' = [rvi EXCEPT !.queue = @ - 1]
    /\ chan' = Sent(chan, "EXEC SendDTMF")
    /\ mainT' = [mainT EXCEPT !.pc = "dtmfWait"]
    /\ watch' = [watch EXCEPT !.acted = watch.stale > 0,
                                !.stale = IF @ > 0 THEN @ - 1 ELSE 0]
    /\ UNCHANGED <<connected, line, monT, playT, monFile, notRVI>>

\* the reply to SendDTMF is in: time.sleep(1.5)
PlayDtmfReply ==
    /\ mainT.pc = "dtmfWait" /\ chan.replies /= <<>>
    /\ Read
    /\ chan' = Taken(chan)
    /\ mainT' = [mainT EXCEPT !.pc = "dtmfSleep", !.timer = Ticks(DtmfSleepMs)]
    /\ UNCHANGED <<line, rvi, monT, playT, monFile, watch, notRVI>>

\* _get_interruption_transcript(): None without a file, else sleep(0.5)
PlayTranscript ==
    /\ mainT.pc = "dtmfSleep" /\ mainT.timer = 0
    /\ mainT' = IF ~rvi.recording \/ monFile = Absent
                THEN [mainT EXCEPT !.pc = "playJoin",
                                   !.timer = Ticks(JoinPlaybackMs)]
                ELSE [mainT EXCEPT !.pc = "trSleep",
                                   !.timer = Ticks(TranscriptSleepMs)]
    /\ UNCHANGED <<connected, line, rvi, monT, playT, chan, monFile, watch, notRVI>>

\* transcript.strip() if transcript else None; None when the ASR raises
TranscriptOf(t) == IF t = AsrRaises \/ t = <<>> THEN None ELSE Strip(t)

PlayTranscribed ==
    /\ mainT.pc = "trSleep" /\ mainT.timer = 0
    /\ \E t \in InterruptTranscripts :
         mainT' = [mainT EXCEPT !.pc = "playJoin", !.transcript = TranscriptOf(t),
                                !.timer = Ticks(JoinPlaybackMs)]
    /\ UNCHANGED <<connected, line, rvi, monT, playT, chan, monFile, watch, notRVI>>

\* playback_thread.join(timeout=1) is over; return False, True, transcript
PlayReturnInterrupted ==
    /\ mainT.pc = "playJoin"
    /\ mainT.timer = 0 \/ playT[mainT.pt] = "dead"
    /\ mainT' = Return("play", <<FALSE, TRUE, mainT.transcript>>)
    /\ UNCHANGED <<connected, line, rvi, monT, playT, chan, monFile, watch, notRVI>>

\* the while loop ran out of max_play_time: playback_thread.join(timeout=1)
PlayTimeout ==
    /\ mainT.pc = "playLoop" /\ mainT.timer = 0
    /\ mainT' = [mainT EXCEPT !.pc = "playJoinT", !.timer = Ticks(JoinPlaybackMs)]
    /\ UNCHANGED <<connected, line, rvi, monT, playT, chan, monFile, watch, notRVI>>

\* return True, False, None
PlayReturnTimeout ==
    /\ mainT.pc = "playJoinT"
    /\ mainT.timer = 0 \/ playT[mainT.pt] = "dead"
    /\ mainT' = Return("play", <<TRUE, FALSE, None>>)
    /\ UNCHANGED <<connected, line, rvi, monT, playT, chan, monFile, watch, notRVI>>

\* _threaded_playback: command('STREAM FILE ... "*"') writes its line
PlaybackSend ==
    \E i \in PlaySlots :
      /\ playT[i] = "send"
      /\ chan' = Sent(chan, "STREAM FILE")
      /\ playT' = [playT EXCEPT ![i] = "wait"]
      /\ UNCHANGED <<connected, line, rvi, mainT, monT, monFile, watch, notRVI>>

\* _threaded_playback: readline() returns, the thread ends
PlaybackReply ==
    \E i \in PlaySlots :
      /\ playT[i] = "wait" /\ chan.replies /= <<>>
      /\ Read
      /\ chan' = Taken(chan)
      /\ playT' = [playT EXCEPT ![i] = "dead"]
      /\ UNCHANGED <<line, rvi, mainT, monT, monFile, watch, notRVI>>

\* the recording streams the switch runs on the channel after it answered r
\* to verb: MixMonitor starts one, StopMixMonitor stops them
StreamsAfter(mix, verb, r) ==
    IF verb = "EXEC MixMonitor" /\ Success(r)
    THEN (IF mix < MaxMonitors THEN mix + 1 ELSE mix)
    ELSE IF verb = "EXEC StopMixMonitor" /\ Success(r) THEN 0
    ELSE mix

\* a call that has ended records nothing
ActiveStreams == IF line = "dead" THEN 0 ELSE chan.mix

\* the switch takes the commands in the order they were written and answers
\* each with one line: at once, except that STREAM FILE is answered when the
\* audio has been played, a digit was pressed or the caller has hung up
SwitchReply ==
    /\ chan.pending /= <<>>
    /\ LET verb == Head(chan.pending) IN
       \E r \in SwitchAnswers(verb, line) :
         /\ chan' = [pending |-> Tail(chan.pending),
                     replies |-> Append(chan.replies, r),
                     mix |-> StreamsAfter(chan.mix, verb, r)]
         /\ line' = LineAfter(line, verb, r)
    /\ UNCHANGED <<connected, rvi, mainT, monT, playT, monFile, watch, notRVI>>

\* MixMonitor writes audio to the recording
FileGrows ==
    /\ rvi.monitoring
    /\ \E s \in MonitorSizes : s > monFile /\ monFile' = s
    /\ UNCHANGED <<connected, line, rvi, mainT, monT, playT, chan, watch, notRVI>>

\* a thread that can take a step now
MainRunnable ==
    \/ mainT.pc \in {"playStart", "playReset"}
    \/ mainT.pc \in {"smWait", "fbWait", "stWait", "dtmfWait"} /\ chan.replies /= <<>>
    \/ mainT.pc = "playLoop" /\ (mainT.timer = 0 \/ rvi.queue > 0)
    \/ mainT.pc \in {"dtmfSleep", "trSleep"} /\ mainT.timer = 0
    \/ mainT.pc = "stJoin" /\ (mainT.timer = 0 \/ ~IsAlive(rvi.monitor_thread))
    \/ mainT.pc \in {"playJoin", "playJoinT"}
          /\ (mainT.timer = 0 \/ playT[mainT.pt] = "dead")

\* the switch has a command it answers at once
SwitchPrompt ==
    /\ chan.pending /= <<>>
    /\ Head(chan.pending) /= "STREAM FILE" \/ line = "dead"

Runnable ==
    \/ MainRunnable
    \/ \E i \in MonSlots : monT[i].alive /\ monT[i].timer = 0
    \/ \E i \in PlaySlots : playT[i] = "send"
    \/ \E i \in PlaySlots : playT[i] = "wait" /\ chan.replies /= <<>>
    \/ SwitchPrompt

Dec(n) == IF n > 0 THEN n - 1 ELSE 0

\* the poll ticks a loop has spent with connected false, counted to one more
\* than the one tick a loop may take to see it
Blind(n) == IF ~connected /\ n <= PollTicks THEN n + 1 ELSE n

\* a stop_monitoring() call is under way, or a thread it told to stop is alive
Stopping ==
    \/ mainT.op = "stop"
    \/ \E i \in MonSlots : monT[i].alive /\ monT[i].stopreq

\* the main thread is in the loop of play_with_interrupt_detection, its
\* playback thread has finished and no interrupt event is queued
PlayedOut ==
    /\ mainT.pc = "playLoop"
    /\ playT[mainT.pt] = "dead"
    /\ rvi.queue = 0

\* one poll interval passes
Tick ==
    /\ ~Runnable
    /\ mainT' = [mainT EXCEPT
                   !.timer = Dec(@),
                   !.blind = IF mainT.pc = "playLoop" THEN Blind(@) ELSE @]
    /\ monT' = [i \in MonSlots |->
                  [monT[i] EXCEPT
                     !.timer = Dec(@),
                     !.blind = IF monT[i].alive THEN Blind(@) ELSE @]]
    /\ watch' = [sinceStop |-> IF Stopping /\ watch.sinceStop <= PollTicks
                               THEN watch.sinceStop + 1 ELSE watch.sinceStop,
                 sincePlayed |-> IF PlayedOut
                                 THEN (IF watch.sincePlayed <= PollTicks
                                       THEN watch.sincePlayed + 1
                                       ELSE watch.sincePlayed)
                                 ELSE 0,
                 stale |-> watch.stale, acted |-> watch.acted,
                 puts |-> watch.puts]
    /\ UNCHANGED <<connected, line, rvi, playT, chan, monFile, notRVI>>

RviStart ==
    /\ rvi = RviInit
    /\ mainT = MainIdle
    /\ monT = [i \in MonSlots |-> MonDead]
    /\ playT = [i \in PlaySlots |-> "dead"]
    /\ chan = [pending |-> <<>>, replies |-> <<>>, mix |-> 0]
    /\ monFile = Absent
    /\ watch = [sinceStop |-> 0, sincePlayed |-> 0, stale |-> 0,
                acted |-> FALSE, puts |-> 0]

RecDefault ==
    /\ flow = FlowIdle
    /\ rec = RecIdle
    /\ recCfg = [guard_window_ms |-> GuardWindowMs,
                 trailing_silence_checks |-> TrailingSilenceChecks,
                 max_speech_bytes |-> MaxSpeechBytes]
    /\ recFile = Absent
    /\ obs = ObsNone

\* the call has been answered when the barge-in code runs
InitRVI == InitAGI /\ line = "up" /\ RecDefault /\ RviStart /\ CallIdle

NextRVI ==
    \/ StartMonitoring
    \/ StartMonitoringReply
    \/ FallbackReply
    \/ StopMonitoring
    \/ StopMonitoringReply
    \/ StopMonitoringJoined
    \/ Play
    \/ PlayDrain
    \/ PlayBegin
    \/ PlayInterrupt
    \/ PlayDtmfReply
    \/ PlayTranscript
    \/ PlayTranscribed
    \/ PlayReturnInterrupted
    \/ PlayTimeout
    \/ PlayReturnTimeout
    \/ MonitorPass
    \/ MonitorPut
    \/ PlaybackSend
    \/ PlaybackReply
    \/ SwitchReply
    \/ FileGrows
    \/ Tick
    \/ CallerHangup

SpecRVI == InitRVI /\ [][NextRVI]_vars

-----------------------------------------------------------------------------
(* Claims about the threads of RobustVoiceInterrupt (SpecRVI)              *)

AliveMonitors == {i \in MonSlots : monT[i].alive}

Range(q) == {q[k] : k \in 1..Len(q)}

\* C1. One outstanding command: no thread writes a command line while the
\* command of another thread still waits for its reply line.
C1_OneOutstanding == Cardinality(InCommand) <= 1

\* C4. Every polling loop checks connected on each pass: no loop, the play
\* loop or the monitor loop, goes on for more than one poll tick with
\* connected false.
C4_LoopsEndOnDisconnect ==
    /\ mainT.blind <= PollTicks
    /\ \A i \in MonSlots : monT[i].blind <= PollTicks

\* C8. Monitor cancellation: once stop_monitoring() is requested on an active
\* monitor, the monitor thread has stopped and control is back with the
\* caller within one poll interval.
C8_Cancellation ==
    /\ \A i \in AliveMonitors : monT[i].stopreq => watch.sinceStop <= PollTicks
    /\ mainT.op = "stop" => watch.sinceStop <= PollTicks

\* C9. At most one monitor: whatever the orchestrator calls and however the
\* threads interleave, at most one _background_monitor thread is alive.
C9_OneMonitor == Cardinality(AliveMonitors) <= 1

\* play_with_interrupt_detection() started the monitor again after a
\* stop_monitoring() that stopped one
C9_Witness ==
    /\ mainT.last = "stop" /\ mainT.pc = "playLoop"
    /\ rvi.monitoring /\ Cardinality(AliveMonitors) = 1

\* C10. When play_with_interrupt_detection() has returned, the playback
\* thread it started has ended.
C10_ThreadsJoined ==
    (mainT.pc = "idle" /\ mainT.last = "play")
        => \A i \in PlaySlots : playT[i] = "dead"

\* C11. Recording streams are strictly nested: MixMonitor is never written
\* while a stream started before is still running, and when an operation
\* that started a stream has returned, the stream has been stopped.
C11_StreamsNested ==
    /\ (mainT.pc = "smWait" /\ "EXEC MixMonitor" \in Range(chan.pending))
           => ActiveStreams = 0
    /\ (mainT.pc = "idle" /\ mainT.last = "play") => ActiveStreams = 0

\* C27. Every barge-in monitoring loop has an explicit deadline: the
\* background monitor loop ends after a bounded number of polls even if the
\* playback never completes and no speech is detected; a thread that was not
\* told to stop on a connected call has made fewer polls than the deadline.
C27_MonitorDeadline ==
    \A i \in MonSlots :
        (monT[i].alive /\ rvi.monitoring /\ connected /\ ~rvi.speech_detected)
            => monT[i].polls < MonitorDeadlinePolls

\* the steps of the program's own threads, and the passing of time; the
\* replies of the switch, the recording and the caller are not among them
ThreadStep ==
    \/ StartMonitoring \/ StartMonitoringReply \/ FallbackReply
    \/ StopMonitoring \/ StopMonitoringReply \/ StopMonitoringJoined
    \/ Play \/ PlayDrain \/ PlayBegin \/ PlayInterrupt \/ PlayDtmfReply \/ PlayTranscript
    \/ PlayTranscribed \/ PlayReturnInterrupted \/ PlayTimeout
    \/ PlayReturnTimeout \/ MonitorPass \/ MonitorPut \/ PlaybackSend \/ PlaybackReply
    \/ Tick

\* the threads are scheduled and time passes; nothing obliges the switch to
\* send a reply line
SpecRVIFair == SpecRVI /\ WF_vars(ThreadStep)

\* C28. command() eventually returns to its caller even if the switch never
\* sends a reply line: a thread that has written a command does not stay in
\* the read of the reply forever.
C28_CommandReturns ==
    \A t \in {MainThread} \cup PlaySlots :
        (t \in InCommand) ~> (t \notin InCommand)

\* C33. Once the playback thread has finished and no interrupt event is
\* queued, play_with_interrupt_detection returns within one poll interval:
\* it is never still in its loop more than one interval later.
C33_ReturnsWhenPlayed == watch.sincePlayed <= PollTicks

\* C37. Every interrupt event play_with_interrupt_detection acts on was
\* enqueued after that call reset speech_detected, and the monitor enqueues
\* at most one event per playback, for every interleaving of the monitor
\* thread with the drain and the reset.
C37_FreshSingleEvent == ~watch.acted /\ watch.puts <= 1

\* the arm delay at the start of a playback: the shortest one that holds a
\* sample of the monitor, one poll interval
ArmDelayMs == 100

\* time since the play loop started, while it runs or waits for SendDTMF
PlayElapsedMs == (Ticks(mainT.max) - mainT.timer) * MonitorPollMs

\* C18. During the arm delay at the start of playback the monitor polls, but
\* no sample taken inside that window triggers an interruption: the play loop
\* never acts on a speech event before the arm delay has passed.
C18_ArmDelay ==
    mainT.pc = "dtmfWait" => PlayElapsedMs >= ArmDelayMs

-----------------------------------------------------------------------------
(* The capture loop as a specification                                     *)

InitRec ==
    /\ InitAGI
    /\ flow = FlowIdle
    /\ rec = RecIdle
    /\ recCfg \in RecConfigs
    /\ recFile = Absent
    /\ obs = ObsNone
    /\ RviStart
    /\ CallIdle

NextRec ==
    \/ RecStart
    \/ RecPoll
    \/ RecOtherCommand
    \/ RecStop
    \/ RecSettle
    \/ RecExcept
    \/ CallerHangup

SpecRec == InitRec /\ [][NextRec]_vars

-----------------------------------------------------------------------------
(* Claims about the capture loop (SpecRec)                                 *)

\* C5. Timeout safety: whatever the timeout and the thresholds, a poll loop
\* that never sees the file size change has ended no later than timeout plus
\* one poll interval after it started.
C5_TimeoutSafety ==
    ~obs.grew =>
        /\ rec.pc = "loop" => rec.now < rec.timeout + PollMs
        /\ rec.pc = "stop" => rec.now <= rec.timeout + PollMs

\* a loop that polled an unchanging file several times and ran into its timeout
C5_Witness ==
    /\ rec.pc = "stop" /\ rec.exit = "timeout" /\ rec.timeout > 0
    /\ ~obs.grew /\ obs.polls >= 3

C7_ExactNth ==
    /\ rec.pc = "loop" => obs.stall < recCfg.trailing_silence_checks
    /\ (rec.pc = "stop" /\ rec.exit = "silence")
           => obs.stall = recCfg.trailing_silence_checks

\* C7, amended. The capture finishes by trailing silence at exactly the poll
\* at which the N-th consecutive no-growth sample taken after the guard
\* window completes, and at no earlier poll; a sample is no-growth when its
\* size is at most 50 bytes above the last size that counted as growth.
C7_ExactNthAfterGuard ==
    /\ rec.pc = "loop" => obs.run < recCfg.trailing_silence_checks
    /\ (rec.pc = "stop" /\ rec.exit = "silence")
           <=> (rec.pc = "stop" /\ obs.run = recCfg.trailing_silence_checks)

\* a capture that saw the file grow and then finished by silence
C7_Witness ==
    /\ rec.pc = "stop" /\ rec.exit = "silence" /\ obs.grew
    /\ obs.run = recCfg.trailing_silence_checks
    /\ recCfg.trailing_silence_checks = TrailingSilenceChecks

\* what the caller of get_user_input_with_mixmonitor has once it returned:
\* the value returned and the connected flag of the agi object
CaptureOutcome == <<rec.ret, connected>>

\* the capture returned after a loop that ran into its timeout without ever
\* seeing speech, on a call that is still up
SilenceReturned ==
    /\ rec.pc = "idle" /\ rec.exit = "timeout" /\ ~rec.asr /\ line = "up"

\* the capture returned at once because EXEC MixMonitor was not answered 200
StartRefused == rec.pc = "idle" /\ rec.exit = "nostart"

\* the outcome of a capture that heard nothing: None, still connected
SilenceOutcome == <<None, TRUE>>

\* C15. Silence is distinguishable from a transport error: a capture that
\* could not start because the switch returned an error never leaves its
\* caller with the outcome (return value, connected) of a silent capture.
C15_SilenceDistinct ==
    /\ SilenceReturned => CaptureOutcome = SilenceOutcome
    /\ StartRefused => CaptureOutcome /= SilenceOutcome

-----------------------------------------------------------------------------
(* ProductionCallRecorder.conversation_flow_with_post_reply_window         *)
(* (SpecFlow): one turn plays the reply with BackgroundDetect, then runs   *)
(* get_user_input_with_mixmonitor once or twice.  The captures are the     *)
(* actions of the capture loop above.                                      *)

\* detect_barge_in_with_background_detect, given the reply to EXEC
\* BackgroundDetect and the reply the fallback STREAM FILE would get:
\* [connected, line, interrupted]
BargeIn(s0, r1, r2) ==
    LET s1 == Exch(s0, "EXEC BackgroundDetect", r1)
        s2 == Exch(s1, "STREAM FILE", r2)
    IN  IF Success(s1.result)
        THEN [connected |-> s1.connected, line |-> s1.line,
              interrupted |-> ~Contains(s1.result, "result=0")]
        ELSE [connected |-> s2.connected, line |-> s2.line, interrupted |-> FALSE]

\* if user_input: / if additional_input:
MutAlwaysInput(x) == TRUE

GotInput(x) == x /= None /\ Truthy(x)

\* f"{user_input.strip()} {additional_input.strip()}"
Combined(user_input, additional_input) ==
    Strip(user_input) \o <<" ">> \o Strip(additional_input)

\* a capture of the turn is due or under way
CapturePhases == {"capInt", "cap1", "cap2"}

\* Step 1: play_with_barge_in
FlowPlay ==
    /\ flow.pc \in {"idle", "done"}
    /\ rec.pc = "idle"
    /\ \E r1 \in SwitchReplies("EXEC BackgroundDetect", line) :
       \E r2 \in SwitchReplies("STREAM FILE",
                               LineAfter(line, "EXEC BackgroundDetect", r1)) :
         LET b == BargeIn(Here, r1, r2) IN
         /\ connected' = b.connected
         /\ line' = b.line
         /\ flow' = [FlowIdle EXCEPT
                        !.pc = IF b.interrupted THEN "capInt" ELSE "cap1",
                        !.interrupted = b.interrupted]
    /\ rec' = RecIdle
    /\ recFile' = Absent
    /\ obs' = ObsNone
    /\ UNCHANGED <<recCfg, notFlow>>

\* the turn calls get_user_input_with_mixmonitor
FlowCapture ==
    /\ flow.pc \in CapturePhases
    /\ rec.exit = "none"
    /\ RecStart

\* get_user_input_with_mixmonitor returned to the turn
FlowResume ==
    /\ flow.pc \in CapturePhases
    /\ rec.pc = "idle" /\ rec.exit /= "none"
    /\ flow' =
         LET f == [flow EXCEPT !.captures = @ + 1] IN
         CASE flow.pc = "capInt" ->
                [f EXCEPT !.pc = "done", !.ret = rec.ret]
           [] flow.pc = "cap1" ->
                IF GotInput(rec.ret)
                THEN [f EXCEPT !.pc = "cap2", !.user_input = rec.ret]
                ELSE [f EXCEPT !.pc = "done", !.user_input = rec.ret,
                               !.ret = None]
           [] flow.pc = "cap2" ->
                [f EXCEPT !.pc = "done", !.additional_input = rec.ret,
                          !.ret = IF GotInput(rec.ret)
                                  THEN Combined(flow.user_input, rec.ret)
                                  ELSE flow.user_input]
    /\ rec' = RecIdle
    /\ UNCHANGED <<connected, line, recCfg, recFile, obs, notFlow>>

InitFlow == InitAGI /\ RecDefault /\ RviStart /\ CallIdle

NextFlow ==
    \/ FlowPlay
    \/ FlowCapture
    \/ RecPoll
    \/ RecStop
    \/ RecSettle
    \/ RecExcept
    \/ FlowResume
    \/ CallerHangup

SpecFlow == InitFlow /\ [][NextFlow]_vars

-----------------------------------------------------------------------------
(* Claims about the conversation flow (SpecFlow)                           *)

\* a capture of the turn has been started or has returned
CaptureRan == flow.captures > 0 \/ rec.pc /= "idle" \/ rec.exit /= "none"

C20_PostReplyWindow ==
    (flow.pc = "done" /\ ~flow.interrupted) =>
        /\ flow.captures \in {1, 2}
        /\ flow.captures = 2 => flow.user_input /= None
        /\ flow.captures = 1 => flow.additional_input = None
        /\ flow.ret = IF flow.user_input = None THEN None
                      ELSE IF flow.additional_input = None THEN flow.user_input
                      ELSE flow.user_input \o <<" ">> \o flow.additional_input
        /\ flow.ret = None <=> flow.user_input = None

\* a turn whose primary and secondary capture both returned an utterance
C20_Witness ==
    /\ flow.pc = "done" /\ ~flow.interrupted /\ flow.captures = 2
    /\ flow.user_input /= None /\ flow.additional_input /= None
    /\ flow.ret = flow.user_input \o <<" ">> \o flow.additional_input

\* the poll before this state was the one that set speech_started
OnsetPoll ==
    /\ rec.pc = "loop" /\ rec.speech_started
    /\ rec.now = rec.speech_start_time + PollMs

InitialDeadlineMs == 1000

\* C23. If no speech onset was detected before the initial short deadline,
\* the capture ends as timed out at that deadline: the loop never runs past
\* it without speech, whatever the overall timeout.
C23_InitialDeadline ==
    (rec.pc = "loop" /\ ~rec.speech_started) => rec.now <= InitialDeadlineMs

\* a pass of the loop that probed the file after the guard window, with
\* speech already active before it
PostGuardPoll ==
    /\ rec.pc = "loop" /\ rec.speech_started
    /\ rec.now - rec.speech_start_time >= recCfg.guard_window_ms
    /\ obs'.polls = obs.polls + 1
    /\ recFile' /= Absent

\* C24. While speech is active the no-growth counter is reset at exactly those
\* polls whose size grew by at least the growth threshold since the previous
\* poll, and is incremented at every other poll after the guard window.
C24_PollToPoll ==
    [][PostGuardPoll =>
         rec'.consecutive_no_growth =
             IF recFile' - recFile >= GrowthBytes
             THEN 0 ELSE rec.consecutive_no_growth + 1]_vars

\* C24, amended. After the guard window the no-growth counter is reset at
\* exactly those polls whose size is more than 50 bytes above the last size
\* that counted as growth, and is incremented at every other poll.
C24_AgainstReference ==
    [][PostGuardPoll =>
         rec'.consecutive_no_growth =
             IF recFile' > obs.ref + GrowthBytes
             THEN 0 ELSE rec.consecutive_no_growth + 1]_vars

\* the file grew since the last size that counted as growth, and the poll
\* was counted as a no-growth poll all the same
C24_Witness ==
    /\ rec.pc = "loop" /\ rec.speech_started
    /\ rec.consecutive_no_growth >= 1
    /\ recFile > obs.ref

\* C25. In every capture state, before the speech onset and inside the guard
\* window included, a poll that sees a size above max_speech_bytes ends the
\* capture at that poll: the loop never goes on after such a poll.
C25_HardCap ==
    rec.pc = "loop" => recFile <= recCfg.max_speech_bytes

\* the capture ran its loop and has gone through the inspection of the file
Inspected ==
    /\ rec.pc \in {"idle", "except"}
    /\ rec.exit \in {"timeout", "aborted", "silence", "cap"}

\* C26. After the capture loop the recorder is stopped before the file is
\* inspected, and the file is handed to the ASR only if its final size reaches
\* the minimum-viable threshold; a smaller or missing file yields None and no
\* ASR call.
C26_ViableOnly ==
    /\ rec.pc \in {"loop", "stop", "settle"} => (rec.file_size = Absent /\ ~rec.asr)
    /\ Inspected =>
         /\ rec.asr => rec.file_size >= MinViableBytes
         /\ rec.file_size < MinViableBytes => (~rec.asr /\ rec.ret = None)

\* the settled file was one byte short of the threshold: None without the ASR
C26_Witness ==
    /\ Inspected /\ rec.pc = "idle"
    /\ rec.file_size = MinViableBytes - 1 /\ ~rec.asr /\ rec.ret = None

\* C34. A capture that left its poll loop because connected was false
\* (Aborted) never calls the ASR and returns no utterance.
C34_AbortedNoAsr == rec.exit = "aborted" => (~rec.asr /\ rec.ret = None)

\* the step is a call of detect_barge_in_with_background_detect whose reply
\* signalled a hangup: command() set connected to false in it
PlaybackHungUp ==
    /\ flow.pc \in {"idle", "done"}
    /\ flow'.pc \in CapturePhases
    /\ connected /\ ~connected'

\* C35. detect_barge_in_with_background_detect never reports a playback
\* whose reply signalled a hangup as interrupted by the caller.
C35_HangupNotInterrupt == [][PlaybackHungUp => ~flow'.interrupted]_vars

-----------------------------------------------------------------------------
(* SpecAGI and its claims                                                  *)

InitSpecAGI == InitAGI /\ RecDefault /\ RviStart /\ CallIdle

NextAGI ==
    \/ RawCommand
    \/ Answer
    \/ Hangup
    \/ StreamFile
    \/ RecordFile
    \/ PviStart
    \/ PviGetOption
    \/ PviDtmf
    \/ PviProbe
    \/ PviStop
    \/ PviClean
    \/ PviDone
    \/ CallerHangup

SpecAGI == InitSpecAGI /\ [][NextAGI]_vars

\* C2. Hangup monotonicity: once connected is false, no command(), answer(),
\* hangup(), stream_file(), record_file() or play_with_voice_interrupt()
\* step sets it back to true.
C2_HangupMonotone == [][connected = FALSE => connected' = FALSE]_vars

\* an operation was called on a session whose connected was already false
C2_Witness == lastOpLate /\ lastOp = "answer" /\ lastAnswer.ret

\* C3. Idempotent answer: when a first answer() has succeeded, a second
\* answer() right after it returns success and at most one ANSWER verb is
\* written over the two calls. Stated here for a first call that left the
\* line up (its ANSWER, if sent, really succeeded).
C3_IdempotentAnswer ==
    (prevAnswer.called /\ prevAnswer.ret /\ prevAnswer.up)
        => (lastAnswer.ret /\ ~(prevAnswer.sent /\ lastAnswer.sent))

\* C3, amended. When a first answer() has succeeded and the call is still up
\* after the second answer() (the caller has not hung up), the second call
\* returns success and at most one ANSWER verb was written over the two.
C3_IdempotentWhileUp ==
    (prevAnswer.called /\ prevAnswer.ret /\ lastAnswer.up)
        => (lastAnswer.ret /\ ~(prevAnswer.sent /\ lastAnswer.sent))

\* the first answer() sent ANSWER and succeeded, the second found the line up
C3_Witness ==
    /\ prevAnswer.called /\ prevAnswer.ret /\ prevAnswer.sent
    /\ lastAnswer.up /\ lastAnswer.ret /\ ~lastAnswer.sent

\* C12. command() does not raise, and on every I/O failure of the channel
\* (the write or the read raised, or the input ended while it waited for the
\* reply) it leaves connected false and returns the synthetic error reply.
C12_IoFailure ==
    (lastOp = "command" /\ ret.out \in {R_EOF, R_ERROR})
        => (~connected /\ ret.out = R_ERROR)

\* C13. Hangup inference: a reply that carries a negative result code or
\* contains a hangup token leaves connected false when command() returns.
C13_HangupInference ==
    (lastOp = "command" /\ (NegativeResult(ret.out) \/ HangupToken(ret.out)))
        => ~connected

\* status codes with which the switch reports an error
ErrorStatus == {"510", "511", "520"}

\* C14. Transport errors count as a possible hangup: a reply whose status
\* code is not 200 leaves connected false when command() returns.
C14_ErrorStatus ==
    (lastOp = "command" /\ ret.out /= <<>> /\ ret.out[1] \in ErrorStatus)
        => ~connected


\* C16. answer() sets the answered flag and returns success only if the
\* channel status reported the call as answered or ANSWER succeeded; when
\* the reply to ANSWER reports a failure or a hangup (a negative result),
\* the answered flag stays as it was and answer() returns failure.
C16_AnswerFailure ==
    (lastOp = "answer" /\ lastAnswer.sent /\ lastAnswer.refused)
        => (~lastAnswer.ret /\ call_answered = lastAnswer.was)


\* the text the agent is speaking: the caller synthesized it into the file
\* it hands to play_with_voice_interrupt
AgentText == <<"H", "e", "l", "p">>

\* case folding of the letters of the texts
LowerChar(c) == IF c = "H" THEN "h" ELSE c

Normalized(t) == [k \in 1..Len(Strip(t)) |-> LowerChar(Strip(t)[k])]

\* a occurs in b
SubstringOf(a, b) ==
    \E k \in 0..(Len(b) - Len(a)) : SubSeq(b, k + 1, k + Len(a)) = a

\* the set of the words of a text; cur is the word being read
RECURSIVE WordsOf(_, _)
WordsOf(t, cur) ==
    IF t = <<>> THEN (IF cur = <<>> THEN {} ELSE {cur})
    ELSE IF Head(t) = " "
         THEN (IF cur = <<>> THEN {} ELSE {cur}) \cup WordsOf(Tail(t), <<>>)
         ELSE WordsOf(Tail(t), Append(cur, Head(t)))

EchoPercent == 65

\* Jaccard similarity of the word sets is at least 0.65
SimilarWords(a, b) ==
    LET A == WordsOf(a, <<>>)
        B == WordsOf(b, <<>>)
    IN  /\ A \cup B /= {}
        /\ 100 * Cardinality(A \cap B) >= EchoPercent * Cardinality(A \cup B)

\* the transcript is the agent's own voice
SelfEcho(transcript, agent) ==
    LET t == Normalized(transcript)
        a == Normalized(agent)
    IN  /\ t /= <<>>
        /\ (SubstringOf(t, a) \/ SubstringOf(a, t) \/ SimilarWords(t, a))

\* play_with_voice_interrupt returned an interruption with a transcript
Activated ==
    /\ lastOp = "play_with_voice_interrupt" /\ agiPc = "idle"
    /\ ~ret.ok /\ ret.out \in Transcripts

\* C17. Self-echo filtering: a barge-in transcript that equals the text the
\* agent is speaking, is a substring of it or contains it, or whose word set
\* has Jaccard similarity of 0.65 or more with it, is never returned as an
\* interruption.
C17_SelfEcho == Activated => ~SelfEcho(ret.out, AgentText)

\* len() of what play_with_voice_interrupt returns second: the placeholders
\* are Python strings of 14 and 13 characters
PyLen(x) ==
    IF x = VOICE_DETECTED THEN 14
    ELSE IF x = DTMF_DETECTED THEN 13
    ELSE Len(x)

\* if interrupt and isinstance(interrupt, str) and len(interrupt) > 2:
\* the text the caller hands to ollama.generate, None if it hands none
InterruptTranscript(interrupt) ==
    IF interrupt /= None /\ Truthy(interrupt) /\ PyLen(interrupt) > MinTranscriptLen
    THEN interrupt ELSE None

\* play_with_voice_interrupt has returned to handle_greeting / conversation_loop
PviReturned == lastOp = "play_with_voice_interrupt" /\ agiPc = "idle"

\* C21. A barge-in in which voice was detected but no transcript was obtained
\* is discarded as noise: the placeholder is never handed to the response
\* generator as a user utterance.
C21_PlaceholderDiscarded ==
    (PviReturned /\ ret.out = VOICE_DETECTED)
        => InterruptTranscript(ret.out) = None

-----------------------------------------------------------------------------
(* main() (voicebot_main.py): one call, from the construction of the       *)
(* session to the return of main() (SpecMain). The loading of the models,  *)
(* the greeting and the conversation are one step that ends or raises.     *)

\* most lines _parse_env reads before the blank line
MaxEnvLines == 3

\* what one sys.stdin.readline() of _parse_env may do
EnvReads == {"var", "blank", "eof", "raised"}

\* what main() leaves alone
notMain == <<agiPc, pviElapsed, ret, lastOp, lastOpLate, lastAnswer,
             prevAnswer, rec, recCfg, recFile, obs, rviVars, flow, convo>>

\* an exception inside main(): the outer handler builds a new session, the
\* inner handler only logs and main() returns
Raise(m) ==
    IF m.caught
    THEN [m EXCEPT !.pc = "returned", !.cleanup_failed = TRUE]
    ELSE [m EXCEPT !.pc = "new", !.caught = TRUE, !.env_count = 0]

\* agi = SimpleAGI(): __init__ sets the flags, _parse_env reads one line
MainParseEnv ==
    /\ mainFn.pc = "new"
    /\ connected' = TRUE
    /\ call_answered' = FALSE
    /\ \E r \in EnvReads :
         CASE r = "var" ->
                /\ mainFn.env_count < MaxEnvLines
                /\ mainFn' = [mainFn EXCEPT !.env_count = @ + 1]
           [] r \in {"blank", "eof"} ->
                mainFn' = [mainFn EXCEPT !.pc = "answer"]
           [] r = "raised" ->
                mainFn' = Raise(mainFn)
    /\ UNCHANGED line
    /\ UNCHANGED notMain

\* agi.answer(): main() returns if it fails, the handler ignores the result
MainAnswer ==
    /\ mainFn.pc = "answer"
    /\ \E r1 \in SwitchReplies("CHANNEL STATUS", line) :
       \E r2 \in SwitchReplies("ANSWER", LineAfter(line, "CHANNEL STATUS", r1)) :
         LET o == AnswerOutcome(Here, call_answered, r1, r2) IN
         /\ connected' = o.connected
         /\ line' = o.line
         /\ call_answered' = o.answered
         /\ mainFn' = [mainFn EXCEPT
                          !.pc = IF mainFn.caught \/ o.ret THEN "verbose"
                                 ELSE "returned"]
    /\ UNCHANGED notMain

\* agi.verbose(...)
MainVerbose ==
    /\ mainFn.pc = "verbose"
    /\ \E r \in SwitchReplies("VERBOSE", line) :
         LET s == Exch(Here, "VERBOSE", r) IN
         /\ connected' = s.connected
         /\ line' = s.line
    /\ mainFn' = [mainFn EXCEPT !.pc = IF mainFn.caught THEN "sleep" ELSE "body"]
    /\ UNCHANGED call_answered
    /\ UNCHANGED notMain

\* get_preloaded_clients() up to conversation_loop(): the call may end in
\* it, and it returns or raises
MainBody ==
    /\ mainFn.pc = "body"
    /\ \E ended \in BOOLEAN :
         /\ connected' = IF ended THEN FALSE ELSE connected
         /\ line' = IF ended THEN "dead" ELSE line
    /\ \E raised \in BOOLEAN :
         mainFn' = IF raised THEN Raise(mainFn)
                   ELSE [mainFn EXCEPT !.pc = "sleep"]
    /\ UNCHANGED call_answered
    /\ UNCHANGED notMain

\* agi.sleep(1)
MainSleep ==
    /\ mainFn.pc = "sleep"
    /\ mainFn' = [mainFn EXCEPT !.pc = "hangup"]
    /\ UNCHANGED <<connected, call_answered, line>>
    /\ UNCHANGED notMain

\* agi.hangup(), the last statement of the body and of the handler
MainHangup ==
    /\ mainFn.pc = "hangup"
    /\ \E r \in SwitchReplies("HANGUP", line) :
         line' = Exch(Here, "HANGUP", r).line
    /\ connected' = FALSE
    /\ mainFn' = [mainFn EXCEPT !.pc = "returned", !.hangups = @ + 1]
    /\ UNCHANGED call_answered
    /\ UNCHANGED notMain

\* the caller hangs up while main() runs
MainCallerHangup ==
    /\ mainFn.pc /= "returned"
    /\ line /= "dead"
    /\ line' = "dead"
    /\ UNCHANGED <<connected, call_answered, mainFn>>
    /\ UNCHANGED notMain

InitMain ==
    /\ InitAGI
    /\ RecDefault
    /\ RviStart
    /\ mainFn = [MainFnIdle EXCEPT !.pc = "new"]
    /\ convo = ConvoIdle

NextMain ==
    \/ MainParseEnv
    \/ MainAnswer
    \/ MainVerbose
    \/ MainBody
    \/ MainSleep
    \/ MainHangup
    \/ MainCallerHangup

SpecMain == InitMain /\ [][NextMain]_vars

\* C29. Whenever an unexpected exception has reached the top-level handler
\* of main(), a HANGUP command has been attempted on the channel by the
\* time main() returns.
C29_HangupAttempted ==
    (mainFn.pc = "returned" /\ mainFn.caught) => mainFn.hangups > 0

-----------------------------------------------------------------------------
(* handle_greeting and conversation_loop (voicebot_main.py) with their     *)
(* three collaborators, the socket clients of socket_clients.py            *)
(* (SpecLoop). After the greeting, a turn captures an                      *)
(* utterance, chooses a response, synthesizes it and plays it. Texts are   *)
(* sequences of characters; the fixed utterances are named.                *)

\* for turn in range(max_turns), cut short
MaxTurns == 3
MaxNoResponseCount == 2
MaxFailedInteractions == 3

T_TEXT == <<"h", "e", "l", "p">>
T_EXIT == <<"b", "y", "e">>
T_URGENT == <<"u", "r", "g", "e", "n", "t">>
Heard == {T_TEXT, T_EXIT, T_URGENT}

TEXT_BYE == <<"#Thank you for calling Netovo. Have a great day!">>
TEXT_URGENT == <<"#... Let me transfer you to our priority support team">>
TEXT_END == <<"#I haven't heard from you ... Thank you for calling Netovo.">>
TEXT_TRANSFER == <<"#I'm having trouble hearing you ... transfer you">>
TEXT_REPROMPT == <<"#I didn't catch that. Could you speak up or repeat?">>
TEXT_DISPATCH == <<"#dispatch_response[voice_response]">>
TEXT_AI == <<"#ai_response">>
TEXT_GREETING == <<"#Hello, thank you for calling Netovo. I'm Alexis. ...">>
FilePath == <<"#file_path">>

\* any(phrase in transcript.lower() for phrase in EXIT_PHRASES)
HasExitPhrase(t) == t = T_EXIT

\* any(phrase in transcript.lower() for phrase in URGENT_PHRASES)
HasUrgentPhrase(t) == t = T_URGENT

\* 'thank you for calling' in response.lower() or 'transfer you' in ...
EndsCall(r) == r \in {TEXT_BYE, TEXT_URGENT, TEXT_END, TEXT_TRANSFER}

\* how one request to the model service may go
SocketOutcomes == {"success", "error", "empty", "no_socket", "exception"}

\* SocketClient._send_request: the status of the dictionary it returns;
\* every exception is turned into an error reply
SendRequest(o) == IF o = "success" THEN "success" ELSE "error"

\* a client made a request and the request did not succeed
Failed(text, o) == Strip(text) /= <<>> /\ SendRequest(o) /= "success"

\* WhisperSocketClient.transcribe_file
TranscribeFile(heard, o) == IF SendRequest(o) = "success" THEN heard ELSE <<>>

\* what get_user_input_with_mixmonitor makes of the transcript
RecorderResult(t) == IF Truthy(t) /\ Len(Strip(t)) > 0 THEN Strip(t) ELSE None

\* OllamaSocketClient.generate
Generate(prompt, o) ==
    IF ~Truthy(prompt) \/ Strip(prompt) = <<>> THEN <<>>
    ELSE IF SendRequest(o) = "success" THEN TEXT_AI
    ELSE <<>>

\* KokoroSocketClient.synthesize
Synthesize(text, o, exists) ==
    IF ~Truthy(text) \/ Strip(text) = <<>> THEN None
    ELSE IF SendRequest(o) = "success" /\ exists THEN FilePath
    ELSE None

\* check_exit_conditions
CheckExit(transcript, response, no_response_count, failed_interactions, late) ==
    \/ (transcript /= None /\ HasExitPhrase(transcript))
    \/ EndsCall(response)
    \/ no_response_count >= MaxNoResponseCount
    \/ failed_interactions >= MaxFailedInteractions
    \/ late

\* what conversation_loop leaves alone
notLoop == <<call_answered, agiPc, pviElapsed, ret, lastOp, lastOpLate,
             lastAnswer, prevAnswer, rec, recCfg, recFile, obs, rviVars, flow,
             mainFn>>

\* the next pass of `for turn in range(max_turns)`
NextTurn(c) ==
    IF c.turn + 1 < MaxTurns
    THEN [c EXCEPT !.pc = "capture", !.turn = @ + 1]
    ELSE [c EXCEPT !.pc = "done", !.turn = @ + 1]

\* what play_with_voice_interrupt returns second, with the ASR request it
\* made, if it made one
PviInterrupts ==
    {[interrupt |-> None, asr |-> "none"],
     [interrupt |-> DTMF_DETECTED, asr |-> "none"],
     [interrupt |-> T_TEXT, asr |-> "success"],
     [interrupt |-> VOICE_DETECTED, asr |-> "success"],
     [interrupt |-> VOICE_DETECTED, asr |-> "error"],
     [interrupt |-> VOICE_DETECTED, asr |-> "none"]}

\* handle_greeting: the greeting is synthesized and played, or the fallback
\* sound is; an interruption with a transcript is answered by the generator
\* and handle_greeting returns; main() enters conversation_loop
ConvoGreeting ==
    /\ convo.pc = "greeting"
    /\ \E o \in SocketOutcomes : \E exists \in BOOLEAN : \E converted \in BOOLEAN :
       \E r \in SwitchReplies("STREAM FILE", line) :
       \E p \in PviInterrupts : \E g \in SocketOutcomes : \E hung \in BOOLEAN :
         LET tts_file == Synthesize(TEXT_GREETING, o, exists)
             s == Exch(Here, "STREAM FILE", r)
             greeting_transcript == InterruptTranscript(p.interrupt)
         IN  IF tts_file /= None /\ converted
             THEN /\ convo' = [convo EXCEPT
                        !.pc = "capture",
                        !.tts_file = tts_file,
                        !.interrupt_transcript = greeting_transcript,
                        !.response = IF greeting_transcript /= None
                                     THEN Generate(greeting_transcript, g)
                                     ELSE None,
                        !.pending = greeting_transcript /= None
                                    /\ Generate(greeting_transcript, g) /= <<>>]
                  /\ connected' = IF hung THEN FALSE ELSE connected
                  /\ line' = IF hung THEN "dead" ELSE line
             ELSE /\ convo' = [convo EXCEPT !.pc = "capture",
                                            !.tts_file = tts_file]
                  /\ connected' = s.connected
                  /\ line' = s.line
    /\ UNCHANGED notLoop

\* transcript = recorder.get_user_input_with_mixmonitor(...): the caller
\* says something or nothing, the ASR request succeeds or not, the call may
\* end meanwhile
ConvoCapture ==
    /\ convo.pc = "capture"
    /\ \E heard \in Heard \cup {<<>>} : \E o \in SocketOutcomes : \E hung \in BOOLEAN :
         LET t == RecorderResult(TranscribeFile(heard, o))
             f == IF heard /= <<>> /\ SendRequest(o) /= "success" THEN {"asr"} ELSE {}
         IN  /\ connected' = IF hung THEN FALSE ELSE connected
             /\ line' = IF hung THEN "dead" ELSE line
             /\ convo' = [convo EXCEPT
                   !.pc = IF connected' THEN "respond" ELSE "done",
                   !.transcript = t,
                   !.response = None,
                   !.tts_file = None,
                   !.interrupt_transcript = None,
                   !.should_exit = FALSE,
                   !.failed = f,
                   !.unanswered = f,
                   !.fallback = "none",
                   !.pending = FALSE]
    /\ UNCHANGED notLoop

\* how a call into the dispatch system may go: its reply is active, active
\* with the customer identified, not active, or the call raises
DispatchOutcomes == {"active", "identified", "inactive", "raised"}

\* the branch an ordinary transcript takes: handle_customer_call in turn 0,
\* process_customer_input once there is a current customer, else the AI
DispatchBranch(dispatch, turn, current_customer) ==
    IF dispatch /\ turn = 0 THEN "intake"
    ELSE IF dispatch /\ current_customer THEN "continue"
    ELSE "ai"

\* whether the response is the dispatch system's voice_response: in the
\* intake branch when the reply is dispatch_active, in the continuing branch
\* unless the call raised; otherwise the AI generates it
UsesDispatchReply(branch, d) ==
    \/ branch = "intake" /\ d \in {"active", "identified"}
    \/ branch = "continue" /\ d /= "raised"

\* no_response_count = 0 with a transcript, no_response_count += 1 without
NoResponseAfter(got, no_response_count) ==
    IF got THEN 0 ELSE no_response_count + 1

\* failed_interactions is left as it is when a transcript came
MutFailedKept(got, failed_interactions) ==
    IF got THEN failed_interactions ELSE failed_interactions + 1

\* failed_interactions = 0 with a transcript, failed_interactions += 1 without
FailedAfter(got, failed_interactions) ==
    IF got THEN 0 ELSE failed_interactions + 1

\* the response of the turn, then check_exit_conditions
ConvoRespond ==
    /\ convo.pc = "respond"
    /\ \E o \in SocketOutcomes : \E d \in DispatchOutcomes : \E late \in BOOLEAN :
         LET t == convo.transcript
             got == t /= None
             plain == got /\ ~HasExitPhrase(t) /\ ~HasUrgentPhrase(t)
             branch == DispatchBranch(convo.dispatch, convo.turn,
                                      convo.current_customer)
             dispatch == plain /\ UsesDispatchReply(branch, d)
             generated == plain /\ ~dispatch
             nrc == NoResponseAfter(got, convo.no_response_count)
             fi == FailedAfter(got, convo.failed_interactions)
             response ==
                 IF got
                 THEN IF HasExitPhrase(t) THEN TEXT_BYE
                      ELSE IF HasUrgentPhrase(t) THEN TEXT_URGENT
                      ELSE IF dispatch THEN TEXT_DISPATCH
                      ELSE Generate(t, o)
                 ELSE IF nrc >= 2 THEN TEXT_END
                      ELSE IF fi >= 3 THEN TEXT_TRANSFER
                      ELSE TEXT_REPROMPT
             f == IF generated /\ Failed(t, o) THEN {"generator"} ELSE {}
         IN  convo' = [convo EXCEPT
                 !.pc = "speak",
                 !.response = response,
                 !.no_response_count = nrc,
                 !.failed_interactions = fi,
                 !.should_exit = CheckExit(t, response, nrc, fi, late),
                 !.failed = @ \cup f,
                 !.unanswered = IF got THEN @ \cup f ELSE @ \ {"asr"},
                 !.fallback = IF got THEN @ ELSE "text",
                 !.current_customer =
                     IF plain /\ branch = "intake" THEN d = "identified" ELSE @,
                 !.intake =
                     IF plain /\ convo.dispatch /\ @ = "none"
                     THEN (IF branch = "intake" THEN "passed" ELSE "missed")
                     ELSE @]
    /\ UNCHANGED <<connected, line>>
    /\ UNCHANGED notLoop

\* tts.synthesize and convert_audio_for_asterisk; without a file to play,
\* agi.stream_file("demo-thanks")
ConvoSpeak ==
    /\ convo.pc = "speak"
    /\ \E o \in SocketOutcomes : \E exists \in BOOLEAN : \E converted \in BOOLEAN :
       \E r \in SwitchReplies("STREAM FILE", line) :
         LET tts_file == Synthesize(convo.response, o, exists)
             f == IF Failed(convo.response, o) THEN {"tts"} ELSE {}
             s == Exch(Here, "STREAM FILE", r)
         IN  IF tts_file /= None /\ converted
             THEN /\ convo' = [convo EXCEPT !.pc = "play",
                                            !.tts_file = tts_file]
                  /\ UNCHANGED <<connected, line>>
             ELSE /\ convo' = [convo EXCEPT !.pc = "after",
                                            !.tts_file = tts_file,
                                            !.failed = @ \cup f,
                                            !.unanswered = {},
                                            !.fallback = "sound"]
                  /\ connected' = s.connected
                  /\ line' = s.line
    /\ UNCHANGED notLoop

\* success, interrupt = agi.play_with_voice_interrupt(asterisk_file, asr)
\* and the two branches on interrupt
ConvoPlay ==
    /\ convo.pc = "play"
    /\ \E p \in PviInterrupts : \E heard \in Heard \cup {<<>>} :
       \E o \in SocketOutcomes : \E hung \in BOOLEAN :
         LET direct == InterruptTranscript(p.interrupt)
             again == direct = None /\ p.interrupt /= None /\ Truthy(p.interrupt)
             t == RecorderResult(TranscribeFile(heard, o))
             f == (IF p.asr = "error" THEN {"asr"} ELSE {})
                  \cup (IF again /\ heard /= <<>> /\ SendRequest(o) /= "success"
                        THEN {"asr"} ELSE {})
         IN  /\ connected' = IF hung THEN FALSE ELSE connected
             /\ line' = IF hung THEN "dead" ELSE line
             /\ convo' = [convo EXCEPT
                   !.pc = "after",
                   !.transcript = IF again THEN t ELSE @,
                   !.interrupt_transcript = IF again THEN t ELSE direct,
                   !.failed = @ \cup f,
                   !.unanswered = @ \cup f]
    /\ UNCHANGED notLoop

\* the end of the turn: an interruption is answered and the loop continues,
\* otherwise the loop ends or goes on to the next turn
ConvoAfter ==
    /\ convo.pc = "after"
    /\ \E o \in SocketOutcomes :
         LET it == convo.interrupt_transcript
             f == IF it /= None /\ Failed(it, o) THEN {"generator"} ELSE {}
         IN  IF it /= None
             THEN convo' = NextTurn([convo EXCEPT
                                !.response = Generate(it, o),
                                !.pending = Generate(it, o) /= <<>>,
                                !.failed = @ \cup f,
                                !.unanswered = @ \cup f])
             ELSE IF convo.should_exit \/ ~connected
             THEN convo' = [convo EXCEPT !.pc = "done"]
             ELSE convo' = NextTurn(convo)
    /\ UNCHANGED <<connected, line>>
    /\ UNCHANGED notLoop

InitLoop ==
    /\ InitAGI
    /\ line = "up"
    /\ RecDefault
    /\ RviStart
    /\ mainFn = MainFnIdle
    /\ \E dispatch \in BOOLEAN :
         convo = [ConvoIdle EXCEPT !.pc = "greeting", !.dispatch = dispatch]

NextLoop ==
    \/ ConvoGreeting
    \/ ConvoCapture
    \/ ConvoRespond
    \/ ConvoSpeak
    \/ ConvoPlay
    \/ ConvoAfter

SpecLoop == InitLoop /\ [][NextLoop]_vars

\* C30. A failure of the ASR, the TTS or the response generator in a turn is
\* seen by conversation_loop as no result (no transcript, no file, an empty
\* response), and by the time the loop starts its next turn the re-prompt
\* text or the built-in fallback sound has answered it. (The loop has no
\* step that raises: _send_request turns every exception into an error
\* reply.)
C30_CollaboratorFailure ==
    /\ (convo.pc = "respond" /\ "asr" \in convo.failed) => convo.transcript = None
    /\ (convo.pc = "speak" /\ "generator" \in convo.failed) => convo.response = <<>>
    /\ (convo.pc = "after" /\ "tts" \in convo.failed) => convo.tts_file = None
    /\ (convo.pc = "capture" /\ connected) => convo.unanswered = {}

\* C31. If check_exit_conditions reported should_exit for a turn, the loop
\* ends in that turn: it never goes on to open the next turn's listening
\* window.
C31_ExitEndsLoop == convo.pc = "capture" => ~convo.should_exit

\* C32. When a response or the greeting was interrupted with a transcript,
\* the reply generated for it is played before the next listening window is
\* opened: no capture starts while that reply is still unplayed.
C32_ReplyPlayedNext == convo.pc = "capture" => ~convo.pending

\* the step writes a RECORD FILE command inside a play_with_voice_interrupt
\* call that was made while the session was connected
PviRecordWritten ==
    /\ agiPc \in {"pviProbe", "pviClean"}
    /\ agiPc' /= agiPc
    /\ lastOp = "play_with_voice_interrupt" /\ ~lastOpLate

\* C36. Once connected has become false the call flow writes no further
\* playback, record or recorder-start command: inside
\* play_with_voice_interrupt every RECORD FILE is written while connected
\* is still true.
C36_QuietAfterHangup == [][PviRecordWritten => connected]_vars

\* C38. At the start of every turn of conversation_loop, failed_interactions
\* equals no_response_count, whatever transcripts, silences and
\* interruptions came before.
C38_CountersEqual ==
    convo.pc = "capture" => convo.failed_interactions = convo.no_response_count

\* a turn starts after a turn of silence and an interrupted turn
C38_Witness ==
    /\ convo.pc = "capture" /\ convo.turn = 2
    /\ convo.no_response_count = 1 /\ convo.failed_interactions = 1
    /\ convo.interrupt_transcript /= None

\* C39. When the dispatch system is available, the first utterance a capture
\* of the call returns is passed to handle_customer_call, whichever turn it
\* comes in. (An utterance that carries an exit or urgent phrase is answered
\* with a fixed text and is not counted here.)
C39_FirstUtteranceIntake == convo.dispatch => convo.intake /= "missed"

====
